---------------------------- MODULE Spec2Model ----------------------------
(***************************************************************************)
(* A model of utools/ulc3.py, the LC-3 emulator: the register file, the    *)
(* memory, the trap dispatcher lc3_trap and the fetch-decode-execute loop  *)
(* lc3, driven the way tests/ulc3/test_instructions.py drives them: a      *)
(* caller presets registers and memory cells, loads a program with         *)
(* Memory.fromiter and calls lc3.                                          *)
(*                                                                         *)
(* Python integers are unbounded, so every sum is computed exactly and the *)
(* 16-bit range checks of array("H") and of Registers.__setitem__ decide   *)
(* whether a store succeeds or raises.  An exception ends the run: exc     *)
(* names it and status becomes "raised".                                   *)
(***************************************************************************)
EXTENDS Integers, Sequences, FiniteSets, TLC

VARIABLES
    registers,  \* Registers.registers: array("H") of 10 cells; 0..7 GPRs, 8 = cond ([-2]), 9 = pc ([-1])
    memory,     \* Memory.memory as a map index -> value of its non-zero cells (all other cells hold 0)
    memsize,    \* len(Memory.memory)
    stdin,      \* the characters read from the input stream so far (-1 is the empty string read at end of input)
    stdout,     \* the character codes written to the stdout argument of lc3
    stderr,     \* what TRAP DEBUG printed to the stderr argument
    status,     \* "setup": the caller prepares the machine; "running": inside lc3's loop; "raised": an exception left lc3
    exc,        \* the exception that ended the run or the caller's call, "" while none
    excarg,     \* the value the exception's message carries (an opcode, a trap vector), -1 when none
    call,       \* the caller's last load or device call: its name, start address and data
    nfa,        \* an NFA as constructed: start_state, final_states, transitions
    dfa,        \* the machine NFA.as_dfa builds and returns
    pending,    \* as_dfa: the combined states still to visit
    visited,    \* as_dfa: the combined states whose row is written
    phase,      \* where the caller of the NFA is: "made", "as_dfa", "built", "called"
    input_word,       \* the input the NFA was called on
    answer,     \* what NFA.__call__ returned: the states reached, and whether one is final;
                \* what DFA.__call__ returned: the state, and whether it is final
    machine,    \* a DFA as constructed: start_state, final_states, transitions
    eqtable,    \* DFA._get_equivalence_table: previous, current and the place in previous
    se,         \* a call of sign_extend: the value, the width, the argument, the result, and whether made
    steps,      \* number of loop iterations of lc3 begun so far
    last        \* the step just taken: opcode, address fetched from, instruction word,
                \* the register written last by __setitem__ (-1: none) and the
                \* index handed to Memory.__getitem__/__setitem__ for the PC-relative or base+offset access,
                \* the cell a load or store finally read or wrote (-1: none), and the
                \* return address of the call under way (-1: none)

\* the state of the LC-3 machine and of its caller
lc3_vars == <<registers, memory, memsize, stdin, stdout, stderr, status, exc, excarg, call,
              steps, last>>

\* the state of the calls made apart from the machine
apart == <<nfa, dfa, pending, visited, phase, input_word, answer, se, machine, eqtable>>

vars == <<lc3_vars, apart>>

-----------------------------------------------------------------------------
(* Bounds of the model *)

\* lc3's loop is cut after this many iterations
MaxSteps == 3

\* the longest string, in cells, PUTS and PUTSP are followed through
MaxString == 8

-----------------------------------------------------------------------------
(* Program constants *)

\* Memory.SIZE, and the bound 1 << 16 of a register value
SIZE == 65536
WORD == 65536

POSITIVE == 1
ZERO == 2
NEGATIVE == 4

BR == 0
ADD == 1
LD == 2
ST == 3
JSR == 4
AND == 5
LDR == 6
STR == 7
RTI == 8
NOT == 9
LDI == 10
STI == 11
JMP == 12
RES == 13
LEA == 14
TRAP == 15

TrapVector_GETC == 32
TrapVector_OUT == 33
TrapVector_PUTS == 34
TrapVector_IN == 35
TrapVector_PUTSP == 36
TrapVector_HALT == 37
TrapVector_DEBUG == 153

GREGISTERS == 8
NREGISTERS == 10
COND == NREGISTERS - 2
PC == NREGISTERS - 1

PROGRAM_START == 12288

-----------------------------------------------------------------------------
(* Python's integer operators on the values the emulator handles *)

RECURSIVE BitAnd(_, _)
\* x & y for x, y >= 0
BitAnd(x, y) ==
    IF x = 0 \/ y = 0 THEN 0
    ELSE (x % 2) * (y % 2) + 2 * BitAnd(x \div 2, y \div 2)

\* x & y for x >= 0 and any y: a negative y is ~(-y-1), and x & ~z = x - (x & z)
PyAnd(x, y) == IF y >= 0 THEN BitAnd(x, y) ELSE x - BitAnd(x, (-y) - 1)

\* x >> n for x >= 0
Shr(x, n) == x \div (2 ^ n)

\* sign_extend without the subtraction of the sign bit: the low bits as they are
sign_extend_unsigned(value, bits) ==
    LET sign_bit == 2 ^ (bits - 1)
    IN  BitAnd(value, sign_bit - 1) + BitAnd(value, sign_bit)

sign_extend(value, bits) ==
    LET sign_bit == 2 ^ (bits - 1)
    IN  BitAnd(value, sign_bit - 1) - BitAnd(value, sign_bit)

-----------------------------------------------------------------------------
(* Registers *)

\* update_flags with the two non-zero flags exchanged
update_flags_swapped(regs, register) ==
    LET value == regs[register]
    IN  IF value = 0 THEN [regs EXCEPT ![COND] = ZERO]
        ELSE IF Shr(value, 15) # 0 THEN [regs EXCEPT ![COND] = POSITIVE]
        ELSE [regs EXCEPT ![COND] = NEGATIVE]

update_flags(regs, register) ==
    LET value == regs[register]
    IN  IF value = 0 THEN [regs EXCEPT ![COND] = ZERO]
        ELSE IF Shr(value, 15) # 0 THEN [regs EXCEPT ![COND] = NEGATIVE]
        ELSE [regs EXCEPT ![COND] = POSITIVE]

\* the two assertions of Registers.__setitem__ (array("H") refuses the same values)
SetItemOk(register, value) ==
    /\ 0 <= register /\ register < GREGISTERS
    /\ 0 <= value /\ value < WORD

\* Registers.__setitem__ once its assertions hold: the store, then update_flags
RegSet(regs, register, value) ==
    update_flags([regs EXCEPT ![register] = value], register)

\* registers.pc = value, registers.cond = value: array("H") takes 0..65535 only
RawOk(value) == 0 <= value /\ value < WORD

-----------------------------------------------------------------------------
(* Memory *)

\* array indexing: a negative index counts from the end
MemIndex(len, position) == IF position < 0 THEN position + len ELSE position

\* whether memory[position] exists; if not, Python raises IndexError
MemOk(len, position) ==
    /\ 0 <= MemIndex(len, position)
    /\ MemIndex(len, position) < len

\* Memory.__getitem__
MemGet(mem, len, position) ==
    LET i == MemIndex(len, position)
    IN  IF i \in DOMAIN mem THEN mem[i] ELSE 0

\* Memory.__setitem__
MemPut(mem, len, position, value) ==
    LET i == MemIndex(len, position)
        dom == IF value = 0 THEN DOMAIN mem \ {i} ELSE DOMAIN mem \cup {i}
    IN  [x \in dom |-> IF x = i THEN value ELSE mem[x]]

\* Memory.fromiter: self.memory[start : start + len(data) - 1] = data.
\* A slice's bounds are clipped to the array (a negative bound counts from the
\* end); the cells lo..hi-1 are replaced by all of data, and the cells from hi
\* on move to follow it.
SliceBound(len, b) ==
    IF b < 0 THEN (IF b + len < 0 THEN 0 ELSE b + len)
    ELSE IF b > len THEN len ELSE b

FromIterLo(len, start) == SliceBound(len, start)

FromIterHi(len, start, n) ==
    LET lo == SliceBound(len, start)
        hi == SliceBound(len, start + n - 1)
    IN  IF hi < lo THEN lo ELSE hi

FromIterSize(len, start, n) ==
    FromIterLo(len, start) + n + (len - FromIterHi(len, start, n))

FromIterMem(mem, len, start, data) ==
    LET n == Len(data)
        lo == FromIterLo(len, start)
        hi == FromIterHi(len, start, n)
        dom == {i \in DOMAIN mem : i < lo}
               \cup {lo + k - 1 : k \in {k \in 1..n : data[k] # 0}}
               \cup {j - hi + lo + n : j \in {j \in DOMAIN mem : j >= hi}}
    IN  [i \in dom |-> IF i < lo THEN mem[i]
                       ELSE IF i < lo + n THEN data[i - lo + 1]
                       ELSE mem[i - n - lo + hi]]

\* int.from_bytes(bytes, "big"); zero for no bytes at all
RECURSIVE IntFromBytesBig(_)
IntFromBytesBig(bytes) ==
    IF bytes = <<>> THEN 0
    ELSE IntFromBytesBig(SubSeq(bytes, 1, Len(bytes) - 1)) * 256 + bytes[Len(bytes)]

\* fd.read(2): at most two bytes, fewer when the stream is shorter
Read2(stream) == SubSeq(stream, 1, IF Len(stream) < 2 THEN Len(stream) ELSE 2)

\* fd.read(): what follows the two bytes of the header
ReadRest(stream) == SubSeq(stream, 3, Len(stream))

\* array("H").frombytes(data) takes whole items only, else ValueError
FromBytesOk(data) == Len(data) % 2 = 0

\* array("H").frombytes(data) on a little-endian host: the first byte of each
\* pair is the low one
ArrayFromBytes(data) ==
    [k \in 1..(Len(data) \div 2) |-> data[2 * k - 1] + 256 * data[2 * k]]

\* array.byteswap() on 16-bit items
ByteSwap(word) == (word % 256) * 256 + (word \div 256)

\* Memory.frombytes without its byteswap()
FromBytesWords_without_byteswap(data) == ArrayFromBytes(data)

\* Memory.frombytes: the words handed on to fromiter
FromBytesWords(data) ==
    LET a == ArrayFromBytes(data)
    IN  [k \in DOMAIN a |-> ByteSwap(a[k])]

-----------------------------------------------------------------------------
(* Instruction words, composed field by field as the tests compose them *)

ADDi(dr, sr1, imm5) == ADD * 4096 + dr * 512 + sr1 * 64 + 32 + imm5
ADDr(dr, sr1, sr2) == ADD * 4096 + dr * 512 + sr1 * 64 + sr2
ANDi(dr, sr1, imm5) == AND * 4096 + dr * 512 + sr1 * 64 + 32 + imm5
ANDr(dr, sr1, sr2) == AND * 4096 + dr * 512 + sr1 * 64 + sr2
NOTr(dr, sr) == NOT * 4096 + dr * 512 + sr * 64 + 63
BRc(nzp, off9) == BR * 4096 + nzp * 512 + off9
LDo(dr, off9) == LD * 4096 + dr * 512 + off9
LDIo(dr, off9) == LDI * 4096 + dr * 512 + off9
LDRo(dr, br, off6) == LDR * 4096 + dr * 512 + br * 64 + off6
LEAo(dr, off9) == LEA * 4096 + dr * 512 + off9
STo(sr, off9) == ST * 4096 + sr * 512 + off9
STIo(sr, off9) == STI * 4096 + sr * 512 + off9
STRo(sr, br, off6) == STR * 4096 + sr * 512 + br * 64 + off6
JMPr(br) == JMP * 4096 + br * 64
JSRo(off11) == JSR * 4096 + 2048 + off11
JSRRr(br) == JSR * 4096 + br * 64
TRAPv(vector) == TRAP * 4096 + vector
INS_HALT == TRAPv(TrapVector_HALT)

-----------------------------------------------------------------------------
(* Inputs *)

\* the registers the caller presets and the values it gives them
SetupRegs == {1, 2}
RegVals == {0, 1, 65520, 65535, 12291}

\* the condition values the caller presets (test_br: a flag, a union, a complement)
CondVals == {POSITIVE, NEGATIVE, POSITIVE + NEGATIVE}

\* the cells the caller writes with memory[a] = v before the run
PokeAddrs == {0, 12528}
PokeVals == {BRc(2, 510), JSRo(1024)}

\* where programs are loaded
LoadAddrs == {PROGRAM_START}

\* the characters the input stream can deliver; EOF is read(1) returning ""
EOF == -1
InChars == {0, 65, 321}

Programs == {
    <<ADDi(3, 1, 1), INS_HALT>>,
    <<ADDi(3, 1, 31), INS_HALT>>,
    <<ADDr(3, 1, 2), INS_HALT>>,
    <<ANDi(3, 1, 31), INS_HALT>>,
    <<ANDi(3, 1, 1), INS_HALT>>,
    <<ANDr(3, 1, 2), INS_HALT>>,
    <<NOTr(3, 1), INS_HALT>>,
    <<BRc(2, 2), INS_HALT, INS_HALT>>,
    <<BRc(5, 2), INS_HALT, INS_HALT>>,
    <<BRc(7, 2), INS_HALT, INS_HALT>>,
    <<BRc(2, 510), INS_HALT>>,
    <<ADDi(3, 1, 0), BRc(1, 1), INS_HALT, INS_HALT>>,
    <<ADDi(3, 1, 0), BRc(4, 511), INS_HALT>>,
    <<LDo(3, 1), INS_HALT, 32769>>,
    <<LDo(3, 239), INS_HALT>>,
    <<LDo(3, 2), STo(3, 2), BRc(4, 1), 32769, 0>>,
    <<LDIo(3, 1), INS_HALT, 12291, 7>>,
    <<LDRo(3, 1, 1), INS_HALT>>,
    <<LDRo(3, 1, 63), INS_HALT>>,
    <<LEAo(1, 5), INS_HALT>>,
    <<LEAo(3, 511), STo(3, 1), INS_HALT, 0>>,
    <<STo(1, 1), INS_HALT, 0>>,
    <<STIo(1, 1), INS_HALT, 12291, 0>>,
    <<STRo(2, 1, 1), INS_HALT>>,
    <<STo(1, 2), LDo(3, 1), INS_HALT, 0>>,
    <<STIo(1, 2), LDIo(3, 1), INS_HALT, 12292, 0>>,
    <<STRo(2, 1, 0), LDRo(3, 1, 0), INS_HALT>>,
    <<JMPr(1)>>,
    <<LDo(3, 1), JMPr(1), 32769>>,
    <<JSRo(1), INS_HALT, JMPr(7)>>,
    <<JSRo(2047), INS_HALT>>,
    <<JSRRr(1), INS_HALT>>,
    <<JSRRr(7), INS_HALT>>,
    <<LEAo(7, 5), JSRRr(7), INS_HALT>>,
    <<JSRo(1), INS_HALT, ADDi(3, 1, 1), JMPr(7)>>,
    <<JSRRr(1), INS_HALT, 0, JMPr(7)>>,
    <<TRAPv(TrapVector_GETC), INS_HALT>>,
    <<TRAPv(TrapVector_OUT), INS_HALT>>,
    <<TRAPv(TrapVector_IN), INS_HALT>>,
    <<LEAo(0, 2), TRAPv(TrapVector_PUTS), INS_HALT, 321, 66, 0>>,
    <<LEAo(0, 2), TRAPv(TrapVector_PUTSP), INS_HALT, 16961, 67, 0>>,
    <<LDo(3, 1), TRAPv(TrapVector_GETC), 32769>>,
    <<TRAPv(TrapVector_DEBUG)>>,
    <<TRAPv(38)>>,
    <<TRAPv(255), INS_HALT>>,
    <<LEAo(0, 1), TRAPv(TrapVector_GETC), INS_HALT>>,
    <<LEAo(0, 1), TRAPv(TrapVector_IN), INS_HALT>>,
    <<LEAo(0, 2), TRAPv(TrapVector_PUTSP), INS_HALT, 67, 68, 0>>,
    <<LEAo(0, 2), TRAPv(TrapVector_PUTSP), INS_HALT, 16640, 0>>,
    <<RTI * 4096, INS_HALT>>,
    <<RES * 4096, INS_HALT>>
}

\* Image streams, byte by byte: the image of tests/ulc3/test_util.py ("Test" at
\* 0x3000), ADD R3,R1,#1; HALT at 0x3000, HALT at 0x4000, three words at
\* 0xFFFF, one word at 0, and streams that are no image: no byte at all, half
\* a header, a header alone (at 0x3000 and at 0), and a body of one and a half
\* words
Images == {
    <<48, 0, 0, 84, 0, 101, 0, 115, 0, 116>>,
    <<48, 0, 22, 97, 240, 37>>,
    <<64, 0, 240, 37>>,
    <<255, 255, 0, 1, 0, 2, 0, 3>>,
    <<0, 0, 22, 97>>,
    <<>>,
    <<48>>,
    <<48, 0>>,
    <<0, 0>>,
    <<48, 0, 22, 97, 240>>
}

-----------------------------------------------------------------------------
(* Construction and the caller's preparation *)

NoStep == [op |-> -1, at |-> -1, ins |-> -1, wrote |-> -1, ea |-> -1, cell |-> -1, ret |-> -1]

NoCall == [fn |-> "", start |-> -1, data |-> <<>>]

\* no call of sign_extend made
NoSignExtend == [value |-> -1, bits |-> -1, arg |-> -1, result |-> 0, done |-> FALSE]

\* Registers(), Memory(): every cell zero
Constructed ==
    /\ registers = [r \in 0..(NREGISTERS - 1) |-> 0]
    /\ memory = <<>>
    /\ memsize = SIZE
    /\ stdin = <<>>
    /\ stdout = <<>>
    /\ stderr = <<>>
    /\ status = "setup"
    /\ exc = ""
    /\ excarg = -1
    /\ call = NoCall
    /\ steps = 0
    /\ last = NoStep

\* a machine with no transition, where none is made or built
NoMachine == [start_state |-> "", final_states |-> {}, transitions |-> <<>>]

NoAnswer == [results |-> {}, accepted |-> FALSE]

\* _get_equivalence_table not running
NoTable == [previous |-> <<>>, current |-> <<>>, subset |-> 0]

\* no DFA made
NoDFA ==
    /\ machine = NoMachine
    /\ eqtable = NoTable

\* no NFA made
NoNFA ==
    /\ NoDFA
    /\ nfa = NoMachine
    /\ dfa = NoMachine
    /\ pending = {}
    /\ visited = {}
    /\ phase = ""
    /\ input_word = <<>>
    /\ answer = NoAnswer

Init ==
    /\ Constructed
    /\ NoNFA
    /\ se = NoSignExtend

\* the caller's registers[r] = v
SetItem ==
    /\ status = "setup"
    /\ \E r \in SetupRegs, v \in RegVals :
        /\ SetItemOk(r, v)
        /\ registers' = RegSet(registers, r, v)
        /\ last' = [NoStep EXCEPT !.wrote = r]
    /\ UNCHANGED <<memory, memsize, stdin, stdout, stderr, status, exc, excarg, call, steps>>
    /\ UNCHANGED apart

\* the caller's registers.cond = f
SetCond ==
    /\ status = "setup"
    /\ \E f \in CondVals :
        /\ RawOk(f)
        /\ registers' = [registers EXCEPT ![COND] = f]
    /\ last' = NoStep
    /\ UNCHANGED <<memory, memsize, stdin, stdout, stderr, status, exc, excarg, call, steps>>
    /\ UNCHANGED apart

\* the caller's memory[a] = v
MemSetItem ==
    /\ status = "setup"
    /\ \E a \in PokeAddrs, v \in PokeVals :
        /\ MemOk(memsize, a)
        /\ memory' = MemPut(memory, memsize, a, v)
    /\ last' = NoStep
    /\ UNCHANGED <<registers, memsize, stdin, stdout, stderr, status, exc, excarg, call, steps>>
    /\ UNCHANGED apart

\* the caller's memory.fromiter(start, data), after which it calls lc3
FromIter ==
    /\ status = "setup"
    /\ \E start \in LoadAddrs, data \in Programs :
        /\ memory' = FromIterMem(memory, memsize, start, data)
        /\ memsize' = FromIterSize(memsize, start, Len(data))
        /\ call' = [fn |-> "fromiter", start |-> start, data |-> data]
    /\ status' = "loaded"
    /\ last' = NoStep
    /\ UNCHANGED <<registers, stdin, stdout, stderr, exc, excarg, steps>>
    /\ UNCHANGED apart

\* the caller's memory.fromfile(fd), as __main__ does: the header is read
\* big-endian, the rest goes through frombytes to fromiter; a body that is not
\* whole words raises ValueError before the memory is touched
FromFile ==
    /\ status = "setup"
    /\ \E stream \in Images :
        LET start_address == IntFromBytesBig(Read2(stream))
            data == ReadRest(stream)
        IN  /\ call' = [fn |-> "fromfile", start |-> start_address, data |-> stream]
            /\ IF FromBytesOk(data)
               THEN /\ memory' = FromIterMem(memory, memsize, start_address,
                                             FromBytesWords(data))
                    /\ memsize' = FromIterSize(memsize, start_address, Len(data) \div 2)
                    /\ status' = "loaded"
                    /\ exc' = ""
               ELSE /\ status' = "raised"
                    /\ exc' = "ValueError"
                    /\ UNCHANGED <<memory, memsize>>
    /\ last' = NoStep
    /\ UNCHANGED <<registers, stdin, stdout, stderr, excarg, steps>>
    /\ UNCHANGED apart

\* the caller's memory.add_device(address, device), as test_memory_device does:
\* Memory has no such attribute, and __slots__ admits none, so the call raises
\* AttributeError and nothing is registered
AddDevice ==
    /\ status = "setup"
    /\ \E address \in PokeAddrs :
        call' = [fn |-> "add_device", start |-> address, data |-> <<>>]
    /\ status' = "raised"
    /\ exc' = "AttributeError"
    /\ last' = NoStep
    /\ UNCHANGED <<registers, memory, memsize, stdin, stdout, stderr, excarg, steps>>
    /\ UNCHANGED apart

\* lc3's first two statements
\* lc3 without registers.cond = Flag.ZERO
Lc3Start_keeping_cond ==
    /\ status = "loaded"
    /\ registers' = [registers EXCEPT ![PC] = PROGRAM_START]
    /\ status' = "running"
    /\ last' = NoStep
    /\ UNCHANGED <<memory, memsize, stdin, stdout, stderr, exc, excarg, call, steps>>
    /\ UNCHANGED apart

Lc3Start ==
    /\ status = "loaded"
    /\ registers' = [registers EXCEPT ![COND] = ZERO, ![PC] = PROGRAM_START]
    /\ status' = "running"
    /\ last' = NoStep
    /\ UNCHANGED <<memory, memsize, stdin, stdout, stderr, exc, excarg, call, steps>>
    /\ UNCHANGED apart

-----------------------------------------------------------------------------
(* The loop of lc3: fetch *)

Running == status = "running" /\ steps < MaxSteps

\* instruction = memory[registers.pc]
Ins == MemGet(memory, memsize, registers[PC])

\* registers.pc right after registers.pc += 1
pc1 == registers[PC] + 1

\* the register file right after the fetch
fetched == [registers EXCEPT ![PC] = pc1]

\* the fetch succeeds and the opcode field selects `op`
Fetch(op) ==
    /\ Running
    /\ MemOk(memsize, registers[PC])
    /\ RawOk(registers[PC] + 1)
    /\ Shr(Ins, 12) = op

\* ret follows the link of a call: the address behind the last JSR or JSRR for
\* as long as no later instruction has written R7
StepAt(op, wrote, ea, cell) ==
    [op |-> op, at |-> registers[PC], ins |-> Ins, wrote |-> wrote, ea |-> ea,
     cell |-> cell,
     ret |-> IF op = JSR THEN pc1
             ELSE IF op = TRAP \/ wrote = 7 THEN -1
             ELSE last.ret]

Step(op, wrote, ea) == StepAt(op, wrote, ea, -1)

\* the end of an iteration that did no input or output
DoneWith(regs, mem, e, arg, l) ==
    /\ registers' = regs
    /\ memory' = mem
    /\ exc' = e
    /\ excarg' = arg
    /\ status' = IF e = "" THEN "running" ELSE "raised"
    /\ steps' = steps + 1
    /\ last' = l
    /\ UNCHANGED <<memsize, stdin, stdout, stderr, call>>
    /\ UNCHANGED apart

Done(regs, mem, e, l) == DoneWith(regs, mem, e, -1, l)

\* registers.pc += 1 at 0xFFFF does not fit array("H"); a pc beyond the array cannot be read
FetchFault ==
    /\ Running
    /\ ~(MemOk(memsize, registers[PC]) /\ RawOk(registers[PC] + 1))
    /\ Done(registers, memory,
            IF MemOk(memsize, registers[PC]) THEN "OverflowError" ELSE "IndexError",
            [NoStep EXCEPT !.at = registers[PC]])

-----------------------------------------------------------------------------
(* The loop of lc3: the opcodes *)

ExecBR ==
    /\ Fetch(BR)
    /\ LET cond == BitAnd(Shr(Ins, 9), 7)
           pc_offset_9 == sign_extend(BitAnd(Ins, 511), 9)
       IN  IF BitAnd(cond, registers[COND]) # 0
           THEN IF RawOk(pc1 + pc_offset_9)
                THEN Done([fetched EXCEPT ![PC] = pc1 + pc_offset_9], memory, "",
                          Step(BR, -1, -1))
                ELSE Done(fetched, memory, "OverflowError", Step(BR, -1, -1))
           ELSE Done(fetched, memory, "", Step(BR, -1, -1))

ExecADD ==
    /\ Fetch(ADD)
    /\ LET dr == BitAnd(Shr(Ins, 9), 7)
           sr1 == BitAnd(Shr(Ins, 6), 7)
           sr2 == BitAnd(Ins, 7)
           imm5 == sign_extend(BitAnd(Ins, 31), 5)
           value == IF BitAnd(Shr(Ins, 5), 1) # 0
                    THEN registers[sr1] + imm5
                    ELSE registers[sr1] + registers[sr2]
       IN  IF SetItemOk(dr, value)
           THEN Done(RegSet(fetched, dr, value), memory, "", Step(ADD, dr, -1))
           ELSE Done(fetched, memory, "AssertionError", Step(ADD, -1, -1))

\* AND with imm5 taken as it stands in the instruction, not sign-extended
ExecAND_unextended ==
    /\ Fetch(AND)
    /\ LET dr == BitAnd(Shr(Ins, 9), 7)
           sr1 == BitAnd(Shr(Ins, 6), 7)
           sr2 == BitAnd(Ins, 7)
           imm5 == BitAnd(Ins, 31)
           value == IF BitAnd(Shr(Ins, 5), 1) # 0
                    THEN PyAnd(registers[sr1], imm5)
                    ELSE PyAnd(registers[sr1], registers[sr2])
       IN  IF SetItemOk(dr, value)
           THEN Done(RegSet(fetched, dr, value), memory, "", Step(AND, dr, -1))
           ELSE Done(fetched, memory, "AssertionError", Step(AND, -1, -1))

ExecAND ==
    /\ Fetch(AND)
    /\ LET dr == BitAnd(Shr(Ins, 9), 7)
           sr1 == BitAnd(Shr(Ins, 6), 7)
           sr2 == BitAnd(Ins, 7)
           imm5 == sign_extend(BitAnd(Ins, 31), 5)
           value == IF BitAnd(Shr(Ins, 5), 1) # 0
                    THEN PyAnd(registers[sr1], imm5)
                    ELSE PyAnd(registers[sr1], registers[sr2])
       IN  IF SetItemOk(dr, value)
           THEN Done(RegSet(fetched, dr, value), memory, "", Step(AND, dr, -1))
           ELSE Done(fetched, memory, "AssertionError", Step(AND, -1, -1))

ExecJMP ==
    /\ Fetch(JMP)
    /\ LET br == BitAnd(Shr(Ins, 6), 7)
       IN  Done([fetched EXCEPT ![PC] = registers[br]], memory, "", Step(JMP, -1, -1))

\* JSR linking the address of the instruction itself
ExecJSR_linking_own_address ==
    /\ Fetch(JSR)
    /\ LET linked == RegSet(fetched, 7, registers[PC])
           pc_offset_11 == sign_extend(BitAnd(Ins, 2047), 11)
           br == BitAnd(Shr(Ins, 6), 7)
       IN  IF BitAnd(Shr(Ins, 11), 1) # 0
           THEN IF RawOk(pc1 + pc_offset_11)
                THEN Done([linked EXCEPT ![PC] = pc1 + pc_offset_11], memory, "",
                          Step(JSR, 7, -1))
                ELSE Done(linked, memory, "OverflowError", Step(JSR, 7, -1))
           ELSE Done([linked EXCEPT ![PC] = linked[br]], memory, "", Step(JSR, 7, -1))

\* JSRR reading the base register before the link is written
ExecJSR_reading_base_first ==
    /\ Fetch(JSR)
    /\ LET linked == RegSet(fetched, 7, pc1)
           pc_offset_11 == sign_extend(BitAnd(Ins, 2047), 11)
           br == BitAnd(Shr(Ins, 6), 7)
       IN  IF BitAnd(Shr(Ins, 11), 1) # 0
           THEN IF RawOk(pc1 + pc_offset_11)
                THEN Done([linked EXCEPT ![PC] = pc1 + pc_offset_11], memory, "",
                          Step(JSR, 7, -1))
                ELSE Done(linked, memory, "OverflowError", Step(JSR, 7, -1))
           ELSE Done([linked EXCEPT ![PC] = registers[br]], memory, "", Step(JSR, 7, -1))

\* registers[7] = registers.pc goes through __setitem__, so it runs update_flags(7)
ExecJSR ==
    /\ Fetch(JSR)
    /\ LET linked == RegSet(fetched, 7, pc1)
           pc_offset_11 == sign_extend(BitAnd(Ins, 2047), 11)
           br == BitAnd(Shr(Ins, 6), 7)
       IN  IF BitAnd(Shr(Ins, 11), 1) # 0
           THEN IF RawOk(pc1 + pc_offset_11)
                THEN Done([linked EXCEPT ![PC] = pc1 + pc_offset_11], memory, "",
                          Step(JSR, 7, -1))
                ELSE Done(linked, memory, "OverflowError", Step(JSR, 7, -1))
           ELSE Done([linked EXCEPT ![PC] = linked[br]], memory, "", Step(JSR, 7, -1))

\* LD with the offset added to the address of the instruction itself
ExecLD_before_increment ==
    /\ Fetch(LD)
    /\ LET dr == BitAnd(Shr(Ins, 9), 7)
           pc_offset_9 == sign_extend(BitAnd(Ins, 511), 9)
           ea == registers[PC] + pc_offset_9
       IN  IF MemOk(memsize, ea)
           THEN Done(RegSet(fetched, dr, MemGet(memory, memsize, ea)), memory, "",
                     StepAt(LD, dr, ea, MemIndex(memsize, ea)))
           ELSE Done(fetched, memory, "IndexError", Step(LD, -1, ea))

ExecLD ==
    /\ Fetch(LD)
    /\ LET dr == BitAnd(Shr(Ins, 9), 7)
           pc_offset_9 == sign_extend(BitAnd(Ins, 511), 9)
           ea == pc1 + pc_offset_9
       IN  IF MemOk(memsize, ea)
           THEN Done(RegSet(fetched, dr, MemGet(memory, memsize, ea)), memory, "",
                     StepAt(LD, dr, ea, MemIndex(memsize, ea)))
           ELSE Done(fetched, memory, "IndexError", Step(LD, -1, ea))

ExecLDI ==
    /\ Fetch(LDI)
    /\ LET dr == BitAnd(Shr(Ins, 9), 7)
           pc_offset_9 == sign_extend(BitAnd(Ins, 511), 9)
           ea == pc1 + pc_offset_9
           address == MemGet(memory, memsize, ea)
       IN  IF MemOk(memsize, ea) /\ MemOk(memsize, address)
           THEN Done(RegSet(fetched, dr, MemGet(memory, memsize, address)), memory, "",
                     StepAt(LDI, dr, ea, MemIndex(memsize, address)))
           ELSE Done(fetched, memory, "IndexError", Step(LDI, -1, ea))

ExecLDR ==
    /\ Fetch(LDR)
    /\ LET dr == BitAnd(Shr(Ins, 9), 7)
           br == BitAnd(Shr(Ins, 6), 7)
           offset_6 == sign_extend(BitAnd(Ins, 63), 6)
           ea == registers[br] + offset_6
       IN  IF MemOk(memsize, ea)
           THEN Done(RegSet(fetched, dr, MemGet(memory, memsize, ea)), memory, "",
                     StepAt(LDR, dr, ea, MemIndex(memsize, ea)))
           ELSE Done(fetched, memory, "IndexError", Step(LDR, -1, ea))

\* LEA with the offset added to the address of the instruction itself
ExecLEA_before_increment ==
    /\ Fetch(LEA)
    /\ LET dr == BitAnd(Shr(Ins, 9), 7)
           pc_offset_9 == sign_extend(BitAnd(Ins, 511), 9)
           value == registers[PC] + pc_offset_9
       IN  IF SetItemOk(dr, value)
           THEN Done(RegSet(fetched, dr, value), memory, "", Step(LEA, dr, -1))
           ELSE Done(fetched, memory, "AssertionError", Step(LEA, -1, -1))

ExecLEA ==
    /\ Fetch(LEA)
    /\ LET dr == BitAnd(Shr(Ins, 9), 7)
           pc_offset_9 == sign_extend(BitAnd(Ins, 511), 9)
           value == pc1 + pc_offset_9
       IN  IF SetItemOk(dr, value)
           THEN Done(RegSet(fetched, dr, value), memory, "", Step(LEA, dr, -1))
           ELSE Done(fetched, memory, "AssertionError", Step(LEA, -1, -1))

\* ~x is -x - 1 on Python's unbounded integers
ExecNOT ==
    /\ Fetch(NOT)
    /\ LET dr == BitAnd(Shr(Ins, 9), 7)
           sr == BitAnd(Shr(Ins, 6), 7)
           value == (-registers[sr]) - 1
       IN  IF SetItemOk(dr, value)
           THEN Done(RegSet(fetched, dr, value), memory, "", Step(NOT, dr, -1))
           ELSE Done(fetched, memory, "AssertionError", Step(NOT, -1, -1))

\* ST that writes the cell behind its target as well
ExecST_two_cells ==
    /\ Fetch(ST)
    /\ LET sr == BitAnd(Shr(Ins, 9), 7)
           pc_offset_9 == sign_extend(BitAnd(Ins, 511), 9)
           ea == pc1 + pc_offset_9
       IN  IF MemOk(memsize, ea) /\ MemOk(memsize, ea + 1)
           THEN Done(fetched,
                     MemPut(MemPut(memory, memsize, ea, registers[sr]), memsize, ea + 1,
                            registers[sr]),
                     "", StepAt(ST, -1, ea, MemIndex(memsize, ea)))
           ELSE Done(fetched, memory, "IndexError", Step(ST, -1, ea))

\* ST that recomputes the flags from the register it stores
ExecST_updating_flags ==
    /\ Fetch(ST)
    /\ LET sr == BitAnd(Shr(Ins, 9), 7)
           pc_offset_9 == sign_extend(BitAnd(Ins, 511), 9)
           ea == pc1 + pc_offset_9
       IN  IF MemOk(memsize, ea)
           THEN Done(update_flags(fetched, sr), MemPut(memory, memsize, ea, registers[sr]),
                     "", StepAt(ST, -1, ea, MemIndex(memsize, ea)))
           ELSE Done(fetched, memory, "IndexError", Step(ST, -1, ea))

ExecST ==
    /\ Fetch(ST)
    /\ LET sr == BitAnd(Shr(Ins, 9), 7)
           pc_offset_9 == sign_extend(BitAnd(Ins, 511), 9)
           ea == pc1 + pc_offset_9
       IN  IF MemOk(memsize, ea)
           THEN Done(fetched, MemPut(memory, memsize, ea, registers[sr]), "",
                     StepAt(ST, -1, ea, MemIndex(memsize, ea)))
           ELSE Done(fetched, memory, "IndexError", Step(ST, -1, ea))

ExecSTI ==
    /\ Fetch(STI)
    /\ LET sr == BitAnd(Shr(Ins, 9), 7)
           pc_offset_9 == sign_extend(BitAnd(Ins, 511), 9)
           ea == pc1 + pc_offset_9
           address == MemGet(memory, memsize, ea)
       IN  IF MemOk(memsize, ea) /\ MemOk(memsize, address)
           THEN Done(fetched, MemPut(memory, memsize, address, registers[sr]), "",
                     StepAt(STI, -1, ea, MemIndex(memsize, address)))
           ELSE Done(fetched, memory, "IndexError", Step(STI, -1, ea))

\* STR that stores the base register instead of the source register
ExecSTR_storing_base ==
    /\ Fetch(STR)
    /\ LET sr == BitAnd(Shr(Ins, 9), 7)
           br == BitAnd(Shr(Ins, 6), 7)
           offset_6 == sign_extend(BitAnd(Ins, 63), 6)
           ea == registers[br] + offset_6
       IN  IF MemOk(memsize, ea)
           THEN Done(fetched, MemPut(memory, memsize, ea, registers[br]), "",
                     StepAt(STR, -1, ea, MemIndex(memsize, ea)))
           ELSE Done(fetched, memory, "IndexError", Step(STR, -1, ea))

ExecSTR ==
    /\ Fetch(STR)
    /\ LET sr == BitAnd(Shr(Ins, 9), 7)
           br == BitAnd(Shr(Ins, 6), 7)
           offset_6 == sign_extend(BitAnd(Ins, 63), 6)
           ea == registers[br] + offset_6
       IN  IF MemOk(memsize, ea)
           THEN Done(fetched, MemPut(memory, memsize, ea, registers[sr]), "",
                     StepAt(STR, -1, ea, MemIndex(memsize, ea)))
           ELSE Done(fetched, memory, "IndexError", Step(STR, -1, ea))

\* RTI and RES raising with the whole instruction word in the message
ExecUnsupported_naming_instruction ==
    /\ Running
    /\ \E op \in {RTI, RES} :
        /\ Fetch(op)
        /\ DoneWith(fetched, memory, "RuntimeError", Ins, Step(op, -1, -1))

\* RTI and RES have no case of their own: case _ raises RuntimeError, whose
\* message shows the opcode in binary and in decimal
ExecUnsupported ==
    /\ Running
    /\ \E op \in {RTI, RES} :
        /\ Fetch(op)
        /\ DoneWith(fetched, memory, "RuntimeError", Shr(Ins, 12), Step(op, -1, -1))

-----------------------------------------------------------------------------
(* The loop of lc3: TRAP and lc3_trap *)

DefinedVectors ==
    {TrapVector_GETC, TrapVector_OUT, TrapVector_PUTS, TrapVector_IN,
     TrapVector_PUTSP, TrapVector_HALT, TrapVector_DEBUG}

\* case OpCode.TRAP with vector = instruction & 0xFF
Trap(vector) == Fetch(TRAP) /\ BitAnd(Ins, 255) = vector

\* registers[7] = registers.pc, again through __setitem__ and update_flags(7)
trap_linked == RegSet(fetched, 7, pc1)

\* the end of an iteration that ran lc3_trap
TrapDoneWith(regs, sin, sout, serr, e, arg, wrote) ==
    /\ registers' = regs
    /\ stdin' = sin
    /\ stdout' = sout
    /\ stderr' = serr
    /\ exc' = e
    /\ excarg' = arg
    /\ status' = IF e = "" THEN "running" ELSE "raised"
    /\ steps' = steps + 1
    /\ last' = Step(TRAP, wrote, -1)
    /\ UNCHANGED <<memory, memsize, call>>
    /\ UNCHANGED apart

TrapDone(regs, sin, sout, serr, e, wrote) ==
    TrapDoneWith(regs, sin, sout, serr, e, -1, wrote)

\* "Waiting for input: "
Prompt == <<87, 97, 105, 116, 105, 110, 103, 32, 102, 111, 114, 32, 105, 110, 112,
            117, 116, 58, 32>>

\* stdout.write(c) of the string read: nothing for the empty string
Echo(c) == IF c = EOF THEN <<>> ELSE <<c>>

RECURSIVE PutsOut(_, _, _)
\* what the loop of PUTS writes from `position` on: chr(c & 0xFF) per cell
PutsOut(mem, len, position) ==
    IF ~MemOk(len, position) THEN <<>>
    ELSE LET c == MemGet(mem, len, position)
         IN  IF c = 0 THEN <<>>
             ELSE <<BitAnd(c, 255)>> \o PutsOut(mem, len, position + 1)

RECURSIVE PutspOut(_, _, _)
\* what the loop of PUTSP writes from `position` on: chr(c & 0xFF), chr(c >> 8) per cell
PutspOut(mem, len, position) ==
    IF ~MemOk(len, position) THEN <<>>
    ELSE LET c == MemGet(mem, len, position)
         IN  IF c = 0 THEN <<>>
             ELSE <<BitAnd(c, 255), Shr(c, 8)>> \o PutspOut(mem, len, position + 1)

RECURSIVE PutsStop(_, _, _)
\* where the loop of PUTS or PUTSP stops: the first zero cell, or the first index outside the array
PutsStop(mem, len, position) ==
    IF ~MemOk(len, position) THEN position
    ELSE IF MemGet(mem, len, position) = 0 THEN position
    ELSE PutsStop(mem, len, position + 1)

\* GETC storing ord(c) whole, without & 0xFF
TrapGETC_unmasked ==
    /\ Trap(TrapVector_GETC)
    /\ \E c \in InChars \cup {EOF} :
        IF c = EOF
        THEN TrapDone(trap_linked, Append(stdin, c), stdout, stderr, "TypeError", 7)
        ELSE TrapDone(RegSet(trap_linked, 0, c), Append(stdin, c), stdout,
                      stderr, "", 0)

\* GETC filling R0 with zero at end of input and going on
TrapGETC_zero_fill ==
    /\ Trap(TrapVector_GETC)
    /\ \E c \in InChars \cup {EOF} :
        IF c = EOF
        THEN TrapDone(RegSet(trap_linked, 0, 0), Append(stdin, c), stdout, stderr, "", 0)
        ELSE TrapDone(RegSet(trap_linked, 0, BitAnd(c, 255)), Append(stdin, c), stdout,
                      stderr, "", 0)

\* ord(getch(stdin)): ord("") raises TypeError
TrapGETC ==
    /\ Trap(TrapVector_GETC)
    /\ \E c \in InChars \cup {EOF} :
        IF c = EOF
        THEN TrapDone(trap_linked, Append(stdin, c), stdout, stderr, "TypeError", 7)
        ELSE TrapDone(RegSet(trap_linked, 0, BitAnd(c, 255)), Append(stdin, c), stdout,
                      stderr, "", 0)

\* sys.stdout: the module imports sys only under __main__, so the name is unbound inside lc3_trap
TrapOUT ==
    /\ Trap(TrapVector_OUT)
    /\ TrapDone(trap_linked, stdin, stdout, stderr, "NameError", 7)

\* PUTS that starts one cell behind the address in R0
TrapPUTS_skipping_first ==
    /\ Trap(TrapVector_PUTS)
    /\ LET start == trap_linked[0]
           out == PutsOut(memory, memsize, start + 1)
           stop == PutsStop(memory, memsize, start)
       IN  TrapDone(trap_linked, stdin, stdout \o out, stderr,
                    IF MemOk(memsize, stop) THEN "" ELSE "IndexError", 7)

TrapPUTS ==
    /\ Trap(TrapVector_PUTS)
    /\ LET start == trap_linked[0]
           out == PutsOut(memory, memsize, start)
           stop == PutsStop(memory, memsize, start)
       IN  TrapDone(trap_linked, stdin, stdout \o out, stderr,
                    IF MemOk(memsize, stop) THEN "" ELSE "IndexError", 7)

\* the prompt, one character read and echoed, then a second read that fills R0
TrapIN ==
    /\ Trap(TrapVector_IN)
    /\ \E c \in InChars \cup {EOF}, c2 \in InChars \cup {EOF} :
        /\ c = EOF => c2 = EOF
        /\ IF c2 = EOF
           THEN TrapDone(trap_linked, stdin \o <<c, c2>>, stdout \o Prompt \o Echo(c),
                         stderr, "TypeError", 7)
           ELSE TrapDone(RegSet(trap_linked, 0, BitAnd(c2, 255)), stdin \o <<c, c2>>,
                         stdout \o Prompt \o Echo(c), stderr, "", 0)

TrapPUTSP ==
    /\ Trap(TrapVector_PUTSP)
    /\ LET start == trap_linked[0]
           out == PutspOut(memory, memsize, start)
           stop == PutsStop(memory, memsize, start)
       IN  TrapDone(trap_linked, stdin, stdout \o out, stderr,
                    IF MemOk(memsize, stop) THEN "" ELSE "IndexError", 7)

\* sys.exit(): sys is unbound, NameError ends the run
TrapHALT ==
    /\ Trap(TrapVector_HALT)
    /\ TrapDone(trap_linked, stdin, stdout, stderr, "NameError", 7)

\* print(registers), memory.debug(pc), then sys.exit() as for HALT
TrapDEBUG ==
    /\ Trap(TrapVector_DEBUG)
    /\ TrapDone(trap_linked, stdin, stdout, stderr \o <<"registers", "memory">>,
                "NameError", 7)

\* a vector that is no member of TrapVector skipped without a word
TrapUndefined_ignored ==
    /\ Fetch(TRAP)
    /\ BitAnd(Ins, 255) \notin DefinedVectors
    /\ TrapDone(trap_linked, stdin, stdout, stderr, "", 7)

\* TrapVector(vector) of a value that is no member raises ValueError, whose
\* message starts with the vector
TrapUndefined ==
    /\ Fetch(TRAP)
    /\ BitAnd(Ins, 255) \notin DefinedVectors
    /\ TrapDoneWith(trap_linked, stdin, stdout, stderr, "ValueError", BitAnd(Ins, 255), 7)

-----------------------------------------------------------------------------
(* The specification *)

Next ==
    \/ SetItem
    \/ SetCond
    \/ MemSetItem
    \/ FromIter
    \/ FromFile
    \/ AddDevice
    \/ Lc3Start
    \/ FetchFault
    \/ ExecBR
    \/ ExecADD
    \/ ExecAND
    \/ ExecJMP
    \/ ExecJSR
    \/ ExecLD
    \/ ExecLDI
    \/ ExecLDR
    \/ ExecLEA
    \/ ExecNOT
    \/ ExecST
    \/ ExecSTI
    \/ ExecSTR
    \/ ExecUnsupported
    \/ TrapGETC
    \/ TrapOUT
    \/ TrapPUTS
    \/ TrapIN
    \/ TrapPUTSP
    \/ TrapHALT
    \/ TrapDEBUG
    \/ TrapUndefined

Spec == Init /\ [][Next]_vars

-----------------------------------------------------------------------------
(* ufsm: NFA.__call__ and NFA.as_dfa *)

\* the longest input word
MaxWord == 3

\* The states and symbols the NFAs are drawn from.  A state of an NFA is a
\* string and PHI among them is "DeadState"; a state of the machine as_dfa
\* builds is a frozenset of them, written as the set, or PHI, written as the
\* set of what iterating PHI yields: PHI itself.
NStates == {"A", "B"}
Symbols == {0, 1}
DeadState == "DeadState"
PHI == {DeadState}

\* transitions: dict[S, dict[A, set[S]]], any state and any symbol may be missing
Rows == UNION {[D -> SUBSET NStates] : D \in SUBSET Symbols}
Tables == UNION {[K -> Rows] : K \in SUBSET NStates}

\* the NFAs of tests/ufsm/test_nfa2dfa.py, "a" and "b" written 0 and 1
TestNFAs == {
    [start_state |-> "A", final_states |-> {"B"},
     transitions |-> [s \in {"A", "B"} |->
        IF s = "A" THEN (0 :> {"B"}) ELSE (0 :> {"B"} @@ 1 :> {"B"})]],
    [start_state |-> "A", final_states |-> {"C"},
     transitions |-> [s \in {"A", "B", "C"} |->
        IF s = "A" THEN (0 :> {"A", "B"} @@ 1 :> {"A"})
        ELSE IF s = "B" THEN (1 :> {"C"}) ELSE <<>>]],
    [start_state |-> "A", final_states |-> {"C"},
     transitions |-> [s \in {"A", "B", "C"} |->
        IF s = "A" THEN (0 :> {"A", "B"} @@ 1 :> {"C"})
        ELSE IF s = "B" THEN (0 :> {"A"} @@ 1 :> {"B"}) ELSE (1 :> {"A", "B"})]],
    [start_state |-> "A", final_states |-> {"C"},
     transitions |-> [s \in {"A", "B", "C"} |->
        IF s = "A" THEN (0 :> {"A"} @@ 1 :> {"A", "B"})
        ELSE IF s = "B" THEN (0 :> {"C"} @@ 1 :> {"C"}) ELSE <<>>]]
}

NFAs ==
    {[start_state |-> "A", final_states |-> f, transitions |-> t] :
        f \in SUBSET NStates, t \in Tables} \cup TestNFAs

\* FiniteStateMachine.__post_init__: inputs and states are read off the keys
Inputs(m) == UNION {DOMAIN m.transitions[s] : s \in DOMAIN m.transitions}
States(m) == DOMAIN m.transitions

Words(alphabet) == UNION {[1..n -> alphabet] : n \in 0..MaxWord}

RECURSIVE NfaResults(_, _, _)
\* NFA.__call__: the state every thread ends in.  A thread follows one target
\* of each transition and leaves the others to new threads; a missing state,
\* a missing symbol or an empty target set (KeyError) ends it in PHI.
NfaResults(m, state, inputs) ==
    IF inputs = <<>> THEN {state}
    ELSE IF state \notin DOMAIN m.transitions THEN {DeadState}
    ELSE IF Head(inputs) \notin DOMAIN m.transitions[state] THEN {DeadState}
    ELSE IF m.transitions[state][Head(inputs)] = {} THEN {DeadState}
    ELSE UNION {NfaResults(m, t, Tail(inputs)) : t \in m.transitions[state][Head(inputs)]}

\* as_dfa: next_state for one symbol, KeyError suppressed state by state
NextState(m, states, symbol) ==
    UNION {m.transitions[state][symbol] :
            state \in {x \in states : /\ x \in DOMAIN m.transitions
                                      /\ symbol \in DOMAIN m.transitions[x]}}

\* frozenset(next_state) if next_state else PHI
Frozen(next_state) == IF next_state = {} THEN PHI ELSE next_state

\* the row as_dfa writes for a combined state
AsDfaRow(m, states) == [symbol \in Inputs(m) |-> {Frozen(NextState(m, states, symbol))}]

\* a function with one more key, or one key rewritten
WithKey(f, key, value) == [k \in DOMAIN f \cup {key} |-> IF k = key THEN value ELSE f[k]]

\* as_dfa's final_states keeping only the combined states made of final states alone
AsDfaFinals_all_final(m, d) ==
    {combined_state \in States(d) : combined_state \subseteq m.final_states}

\* as_dfa's final_states: the combined states with a final state among them
AsDfaFinals(m, d) ==
    {combined_state \in States(d) :
        \E single_state \in combined_state : single_state \in m.final_states}

InitAsDfa ==
    /\ Constructed
    /\ se = NoSignExtend
    /\ NoDFA
    /\ nfa \in NFAs
    /\ dfa = NoMachine
    /\ pending = {}
    /\ visited = {}
    /\ phase = "made"
    /\ input_word = <<>>
    /\ answer = NoAnswer

\* n.as_dfa() up to its loop
AsDfaBegin ==
    /\ phase = "made"
    /\ dfa' = [start_state |-> {nfa.start_state}, final_states |-> {}, transitions |-> <<>>]
    /\ pending' = {{nfa.start_state}}
    /\ visited' = {}
    /\ phase' = "as_dfa"
    /\ UNCHANGED <<lc3_vars, nfa, input_word, answer, se, machine, eqtable>>

\* one turn of while pending: pop any combined state; skip it if visited,
\* write the row of PHI, or write its row and queue its targets
AsDfaLoop ==
    /\ phase = "as_dfa"
    /\ \E states \in pending :
        IF states \in visited
        THEN /\ pending' = pending \ {states}
             /\ UNCHANGED <<dfa, visited>>
        ELSE IF states = PHI
        THEN /\ dfa' = [dfa EXCEPT !.transitions =
                            WithKey(@, PHI, [symbol \in Inputs(nfa) |-> {PHI}])]
             /\ pending' = pending \ {states}
             /\ UNCHANGED visited
        ELSE /\ dfa' = [dfa EXCEPT !.transitions = WithKey(@, states, AsDfaRow(nfa, states))]
             /\ pending' = (pending \ {states})
                            \cup UNION {AsDfaRow(nfa, states)[symbol] : symbol \in Inputs(nfa)}
             /\ visited' = visited \cup {states}
    /\ UNCHANGED <<lc3_vars, nfa, phase, input_word, answer, se, machine, eqtable>>

\* the loop has ended: calculate_properties, final_states, return dfa
AsDfaReturn ==
    /\ phase = "as_dfa"
    /\ pending = {}
    /\ dfa' = [dfa EXCEPT !.final_states = AsDfaFinals(nfa, dfa)]
    /\ phase' = "built"
    /\ UNCHANGED <<lc3_vars, nfa, pending, visited, input_word, answer, se, machine, eqtable>>

\* n(inputs) for a word over the NFA's alphabet
NfaCall ==
    /\ phase = "built"
    /\ \E inputs \in Words(Inputs(nfa)) :
        /\ input_word' = inputs
        /\ LET results == NfaResults(nfa, nfa.start_state, inputs)
           IN  answer' = [results |-> results,
                          accepted |-> results \cap nfa.final_states # {}]
    /\ phase' = "called"
    /\ UNCHANGED <<lc3_vars, nfa, dfa, pending, visited, se, machine, eqtable>>

NextAsDfa ==
    \/ AsDfaBegin
    \/ AsDfaLoop
    \/ AsDfaReturn
    \/ NfaCall

SpecAsDfa == InitAsDfa /\ [][NextAsDfa]_vars

-----------------------------------------------------------------------------
(* ufsm: DFA.__call__, DFA.negate and DFA.minimize *)

\* The states the DFAs are drawn from; the symbols are those of the NFAs.
DStates == {"A", "B", "C"}

\* complete transitions: one target for every state and every symbol
CompleteTables == [DStates -> [Symbols -> {{target} : target \in DStates}]]

\* a dict written state by state
Transitions(rows) == [state \in {row[1] : row \in rows} |->
                        (CHOOSE row \in rows : row[1] = state)[2]]

\* the DFAs of tests/ufsm/test_minimize.py
TestDFAs == {
    [start_state |-> "A", final_states |-> {"E"},
     transitions |-> Transitions({
        <<"A", (0 :> {"B"} @@ 1 :> {"C"})>>,
        <<"B", (0 :> {"B"} @@ 1 :> {"D"})>>,
        <<"C", (0 :> {"B"} @@ 1 :> {"C"})>>,
        <<"D", (0 :> {"B"} @@ 1 :> {"E"})>>,
        <<"E", (0 :> {"B"} @@ 1 :> {"C"})>>})],
    [start_state |-> "A", final_states |-> {"C"},
     transitions |-> Transitions({
        <<"A", (0 :> {"B"} @@ 1 :> {"F"})>>,
        <<"B", (0 :> {"G"} @@ 1 :> {"C"})>>,
        <<"C", (0 :> {"A"} @@ 1 :> {"C"})>>,
        <<"D", (0 :> {"C"} @@ 1 :> {"G"})>>,
        <<"E", (0 :> {"H"} @@ 1 :> {"F"})>>,
        <<"F", (0 :> {"C"} @@ 1 :> {"G"})>>,
        <<"G", (0 :> {"G"} @@ 1 :> {"E"})>>,
        <<"H", (0 :> {"G"} @@ 1 :> {"C"})>>})],
    [start_state |-> "A", final_states |-> {"B", "C", "F"},
     transitions |-> Transitions({
        <<"A", (0 :> {"B"} @@ 1 :> {"C"})>>,
        <<"B", (0 :> {"D"} @@ 1 :> {"E"})>>,
        <<"C", (0 :> {"E"} @@ 1 :> {"D"})>>,
        <<"D", (0 :> {"F"} @@ 1 :> {"F"})>>,
        <<"E", (0 :> {"F"} @@ 1 :> {"F"})>>,
        <<"F", (0 :> {"F"} @@ 1 :> {"F"})>>})]
}

CompleteDFAs ==
    {[start_state |-> "A", final_states |-> f, transitions |-> t] :
        f \in SUBSET DStates, t \in CompleteTables} \cup TestDFAs

\* transitions with at most one target, any state, symbol or target missing
PartialRows == UNION {[D -> {targets \in SUBSET NStates : Cardinality(targets) <= 1}] :
                        D \in SUBSET Symbols}
PartialTables == UNION {[K -> PartialRows] : K \in SUBSET NStates}

\* the DFA of test_01_or_1n0 in tests/ufsm/test_dfa.py
TestPartialDFA ==
    [start_state |-> "A", final_states |-> {"D", "E"},
     transitions |-> Transitions({
        <<"A", (0 :> {"C"} @@ 1 :> {"B"})>>,
        <<"B", (0 :> {"D"} @@ 1 :> {"B"})>>,
        <<"C", (1 :> {"E"})>>,
        <<"D", <<>>>>,
        <<"E", <<>>>>})]

PartialDFAs ==
    {[start_state |-> "A", final_states |-> f, transitions |-> t] :
        f \in SUBSET NStates, t \in PartialTables} \cup {TestPartialDFA}

\* how a call of a DFA ends: in a state, in PHI, or with the StopIteration of
\* next(iter(set())), which __call__ does not catch
EndIn(state) == [end |-> "state", state |-> state]
EndPHI == [end |-> "PHI", state |-> DeadState]
EndStopIteration == [end |-> "StopIteration", state |-> ""]

RECURSIVE DfaRun(_, _, _)
\* DFA.__call__, the try block from `state` on: a missing state or symbol is a
\* KeyError, which ends the call in PHI; next(iter(...)) takes any one target
DfaRun(m, state, inputs) ==
    IF inputs = <<>> THEN {EndIn(state)}
    ELSE IF state \notin DOMAIN m.transitions THEN {EndPHI}
    ELSE IF Head(inputs) \notin DOMAIN m.transitions[state] THEN {EndPHI}
    ELSE IF m.transitions[state][Head(inputs)] = {} THEN {EndStopIteration}
    ELSE UNION {DfaRun(m, target, Tail(inputs)) :
                    target \in m.transitions[state][Head(inputs)]}

\* DFA.__call__ answering the empty input as the NFA does, with the start state
DfaResults_from_start(m, inputs) == DfaRun(m, m.start_state, inputs)

\* DFA.__call__: inputs[0] of the empty input is an IndexError, which ends the
\* call in PHI
DfaResults(m, inputs) ==
    IF inputs = <<>> THEN {EndPHI} ELSE DfaRun(m, m.start_state, inputs)

\* state in self.final_states; PHI is a final state of no machine drawn here
IsFinal(m, result) == result.end = "state" /\ result.state \in m.final_states

\* DFA.negate
Negated(m) ==
    [start_state |-> m.start_state,
     final_states |-> DOMAIN m.transitions \ m.final_states,
     transitions |-> m.transitions]

\* next(s for s in table if a <= s): the first set of the list that holds a
FirstWith(blocks, a) ==
    blocks[CHOOSE i \in 1..Len(blocks) :
                /\ a \subseteq blocks[i]
                /\ \A j \in 1..(i - 1) : ~(a \subseteq blocks[j])]

\* _state_compare taking two states as equivalent only when their targets are the same
StateCompare_same_targets(m, s1, s2, table) ==
    \A sym \in Inputs(m) : m.transitions[s1][sym] = m.transitions[s2][sym]

\* DFA._state_compare: for every symbol the targets are the same or lie in
\* the same set of the table
StateCompare(m, s1, s2, table) ==
    \A sym \in Inputs(m) :
        LET a == m.transitions[s1][sym]
            b == m.transitions[s2][sym]
        IN  \/ a = b
            \/ FirstWith(table, a) = FirstWith(table, b)

\* DFA._list_compare
ListCompare(a, b) ==
    /\ Len(a) = Len(b)
    /\ \A i \in 1..Len(a) : a[i] = b[i]

\* the place of s1's set in current, 0 when it is in none
PlaceIn(current, s1) ==
    IF \E i \in 1..Len(current) : s1 \in current[i]
    THEN CHOOSE i \in 1..Len(current) :
            s1 \in current[i] /\ \A j \in 1..(i - 1) : s1 \notin current[j]
    ELSE 0

\* minimize: the rows of the blocks
MinimizeRows(m, equivalences) ==
    [state \in {equivalences[i] : i \in 1..Len(equivalences)} |->
        [symbol \in Inputs(m) |->
            {FirstWith(equivalences,
                       UNION {m.transitions[prev_state][symbol] : prev_state \in state})}]]

\* minimize: the combined states with a final state among them
MinimizeFinals(m, d) ==
    {combined_state \in States(d) :
        \E single_state \in combined_state : single_state \in m.final_states}

NoDfaAnswer == [of |-> "", end |-> "", state |-> "", accepted |-> FALSE]

InitDfa ==
    /\ Constructed
    /\ se = NoSignExtend
    /\ machine \in CompleteDFAs
    /\ eqtable = NoTable
    /\ nfa = NoMachine
    /\ dfa = NoMachine
    /\ pending = {}
    /\ visited = {}
    /\ phase = "made"
    /\ input_word = <<>>
    /\ answer = NoDfaAnswer

\* d.negate()
Negate ==
    /\ phase = "made"
    /\ machine # NoMachine
    /\ dfa' = Negated(machine)
    /\ phase' = "negated"
    /\ UNCHANGED <<lc3_vars, nfa, pending, visited, input_word, answer, se, machine, eqtable>>

\* d.negate().negate()
NegateAgain ==
    /\ phase = "negated"
    /\ dfa' = Negated(dfa)
    /\ phase' = "negated twice"
    /\ UNCHANGED <<lc3_vars, nfa, pending, visited, input_word, answer, se, machine, eqtable>>

\* d.minimize() up to the first turn of _get_equivalence_table's loops
MinimizeBegin ==
    /\ phase = "made"
    /\ machine # NoMachine
    /\ dfa' = [start_state |-> {machine.start_state}, final_states |-> {},
               transitions |-> <<>>]
    /\ eqtable' = [previous |-> <<States(machine) \ machine.final_states,
                                  machine.final_states>>,
                   current |-> <<>>,
                   subset |-> 1]
    /\ pending' = States(machine) \ machine.final_states
    /\ phase' = "minimize"
    /\ UNCHANGED <<lc3_vars, nfa, visited, input_word, answer, se, machine>>

\* one turn of _get_equivalence_table: pop any s1 from pending, find or
\* append its set in current and add the states of pending equivalent to it;
\* with pending empty go to the next subset of previous; with none left
\* compare the lists and either return current or start over from it
EquivalenceLoop ==
    /\ phase = "minimize"
    /\ IF pending # {}
       THEN \E s1 \in pending :
                LET rest == pending \ {s1}
                    place == PlaceIn(eqtable.current, s1)
                    current == IF place = 0 THEN Append(eqtable.current, {s1})
                               ELSE eqtable.current
                    at == IF place = 0 THEN Len(current) ELSE place
                    equal == {s2 \in rest : StateCompare(machine, s1, s2, eqtable.previous)}
                IN  /\ pending' = rest
                    /\ eqtable' = [eqtable EXCEPT !.current =
                                        [current EXCEPT ![at] = @ \cup equal]]
                    /\ UNCHANGED phase
       ELSE IF eqtable.subset < Len(eqtable.previous)
       THEN /\ pending' = eqtable.previous[eqtable.subset + 1]
            /\ eqtable' = [eqtable EXCEPT !.subset = @ + 1]
            /\ UNCHANGED phase
       ELSE IF ListCompare(eqtable.previous, eqtable.current)
       THEN /\ phase' = "equivalences"
            /\ UNCHANGED <<pending, eqtable>>
       ELSE /\ pending' = eqtable.current[1]
            /\ eqtable' = [previous |-> eqtable.current, current |-> <<>>, subset |-> 1]
            /\ UNCHANGED phase
    /\ UNCHANGED <<lc3_vars, nfa, dfa, visited, input_word, answer, se, machine>>

\* the table is returned: minimize writes the rows, calculate_properties,
\* start_state, final_states, and returns dfa
MinimizeReturn ==
    /\ phase = "equivalences"
    /\ LET equivalences == eqtable.current
           rows == [dfa EXCEPT !.transitions = MinimizeRows(machine, equivalences)]
       IN  dfa' = [rows EXCEPT !.start_state = FirstWith(equivalences, {machine.start_state}),
                               !.final_states = MinimizeFinals(machine, rows)]
    /\ eqtable' = NoTable
    /\ phase' = "minimized"
    /\ UNCHANGED <<lc3_vars, nfa, pending, visited, input_word, answer, se, machine>>

\* d(inputs), of the DFA as made or of the DFA negate or minimize returned
DfaCall ==
    /\ phase \in {"made", "negated", "minimized"}
    /\ machine # NoMachine
    /\ \E inputs \in Words(Symbols) :
        /\ input_word' = inputs
        /\ LET d == IF phase = "made" THEN machine ELSE dfa
           IN  \E result \in DfaResults(d, inputs) :
                answer' = [of |-> phase, end |-> result.end, state |-> result.state,
                           accepted |-> IsFinal(d, result)]
    /\ phase' = "called"
    /\ UNCHANGED <<lc3_vars, nfa, dfa, pending, visited, se, machine, eqtable>>

NextDfa ==
    \/ Negate
    \/ NegateAgain
    \/ MinimizeBegin
    \/ EquivalenceLoop
    \/ MinimizeReturn
    \/ DfaCall

SpecDfa == InitDfa /\ [][NextDfa]_vars

\* a call of minimize that has begun goes on to its end
SpecMinimize == SpecDfa /\ WF_vars(EquivalenceLoop) /\ WF_vars(MinimizeReturn)

\* a machine with any transition missing, made as a DFA and as an NFA
InitCall ==
    /\ Constructed
    /\ se = NoSignExtend
    /\ machine \in PartialDFAs
    /\ eqtable = NoTable
    /\ nfa = machine
    /\ dfa = NoMachine
    /\ pending = {}
    /\ visited = {}
    /\ phase = "made"
    /\ input_word = <<>>
    /\ answer = NoDfaAnswer

\* n(inputs) of the NFA as made
NfaCallMade ==
    /\ phase = "made"
    /\ nfa # NoMachine
    /\ \E inputs \in Words(Symbols) :
        /\ input_word' = inputs
        /\ LET results == NfaResults(nfa, nfa.start_state, inputs)
           IN  answer' = [of |-> "nfa", results |-> results,
                          accepted |-> results \cap nfa.final_states # {}]
    /\ phase' = "called"
    /\ UNCHANGED <<lc3_vars, nfa, dfa, pending, visited, se, machine, eqtable>>

NextCall ==
    \/ DfaCall
    \/ NfaCallMade

SpecCall == InitCall /\ [][NextCall]_vars

-----------------------------------------------------------------------------
(* sign_extend on its own: every width and every 16-bit value *)

Widths == 1..16
Values == 0..(WORD - 1)

InitSignExtend ==
    /\ Constructed
    /\ NoNFA
    /\ \E v \in Values, b \in Widths :
        se = [NoSignExtend EXCEPT !.value = v, !.bits = b]

\* the caller's sign_extend(v & ((1 << b) - 1), b), as lc3 calls it on a field
\* of the instruction
SignExtendCall ==
    /\ ~se.done
    /\ LET arg == BitAnd(se.value, 2 ^ se.bits - 1)
       IN  se' = [se EXCEPT !.arg = arg, !.result = sign_extend(arg, se.bits), !.done = TRUE]
    /\ UNCHANGED <<lc3_vars, nfa, dfa, pending, visited, phase, input_word, answer, machine, eqtable>>

NextSignExtend ==
    \/ SignExtendCall

SpecSignExtend == InitSignExtend /\ [][NextSignExtend]_vars

-----------------------------------------------------------------------------
(* Properties *)

\* the flag that the sign of a 16-bit value calls for
FlagFor(value) ==
    IF value = 0 THEN ZERO ELSE IF value \div 32768 = 1 THEN NEGATIVE ELSE POSITIVE

\* the fields of an instruction word
FieldDR(ins) == (ins \div 512) % 8
FieldSR1(ins) == (ins \div 64) % 8
FieldSR2(ins) == ins % 8
Offset9(ins) == IF ins % 512 >= 256 THEN (ins % 512) - 512 ELSE ins % 512
Imm5(ins) == IF ins % 32 >= 16 THEN (ins % 32) - 32 ELSE ins % 32

\* C1: after a write of a value to a general-purpose register through
\* Registers.__setitem__, the condition register holds exactly one of ZERO,
\* POSITIVE, NEGATIVE: ZERO iff the stored 16-bit value is 0, NEGATIVE iff its
\* bit 15 is 1, POSITIVE otherwise.
C1_FlagsFollowWrite ==
    last.wrote \in 0..(GREGISTERS - 1) =>
        LET value == registers[last.wrote]
        IN  /\ value \in 0..65535
            /\ registers[COND] \in {ZERO, POSITIVE, NEGATIVE}
            /\ (registers[COND] = ZERO) <=> (value = 0)
            /\ (registers[COND] = NEGATIVE) <=> ((value \div 32768) % 2 = 1)
            /\ (registers[COND] = POSITIVE) <=> (value # 0 /\ (value \div 32768) % 2 = 0)

\* C1 witness: ADD R3, R1, #0 has just written 0xFFF0 to R3 and the flag is NEGATIVE
C1_Witness ==
    /\ last.op = ADD
    /\ last.wrote = 3
    /\ registers[3] = 65520
    /\ registers[COND] = NEGATIVE

\* C2: executing ADD stores (SR1 + operand) mod 2^16 in DR, the operand being
\* SR2 or the sign-extended imm5, sets the flags from that result and raises
\* no error on overflow.
C2_AddWraps ==
    [][Fetch(ADD) =>
        LET operand == IF (Ins \div 32) % 2 = 1 THEN Imm5(Ins)
                       ELSE registers[FieldSR2(Ins)]
            result == (registers[FieldSR1(Ins)] + operand) % 65536
        IN  /\ exc' = ""
            /\ registers'[FieldDR(Ins)] = result
            /\ registers'[COND] = FlagFor(result)]_vars

\* C3: executing NOT stores the 16-bit complement 0xFFFF - x of SR in DR and
\* sets the flags from it.
C3_NotComplements ==
    [][Fetch(NOT) =>
        LET result == 65535 - registers[FieldSR1(Ins)]
        IN  /\ exc' = ""
            /\ registers'[FieldDR(Ins)] = result
            /\ registers'[COND] = FlagFor(result)]_vars

\* C4: in a program [I, TRAP HALT] run from the start address, executing HALT
\* ends the run and changes neither the condition flag, nor R0..R6, nor any
\* memory cell: flag and destination register stay as I left them.
C4_HaltKeepsState ==
    [][(/\ Trap(TrapVector_HALT)
        /\ steps = 1
        /\ last.at = PROGRAM_START
        /\ registers[PC] = PROGRAM_START + 1) =>
        /\ status' # "running"
        /\ registers'[COND] = registers[COND]
        /\ \A r \in 0..6 : registers'[r] = registers[r]
        /\ memory' = memory /\ memsize' = memsize]_vars

\* C5: executing ST, STI, STR, BR (taken or not) or JMP leaves the condition
\* register unchanged, in every machine state.
C5_StoresAndJumpsKeepFlags ==
    [][\A op \in {ST, STI, STR, BR, JMP} :
        Fetch(op) => registers'[COND] = registers[COND]]_vars

\* C5 witness: ST has stored a negative value while the flag is still ZERO
C5_Witness ==
    /\ last.op = ST
    /\ exc = ""
    /\ MemGet(memory, memsize, last.ea) >= 32768
    /\ registers[COND] = ZERO

\* C6: executing JSR or JSRR leaves the condition register unchanged.
C6_JsrKeepsFlags ==
    [][Fetch(JSR) => registers'[COND] = registers[COND]]_vars

\* C7: executing TRAP with a defined vector (GETC, OUT, PUTS, IN, PUTSP, HALT)
\* leaves the condition register unchanged.
C7_TrapKeepsFlags ==
    [][\A vector \in DefinedVectors \ {TrapVector_DEBUG} :
        Trap(vector) => registers'[COND] = registers[COND]]_vars

C10_BranchTarget ==
    [][Fetch(BR) =>
        LET a == registers[PC]
            m == FieldDR(Ins)
            taken == \E bit \in {1, 2, 4} :
                        (m \div bit) % 2 = 1 /\ (registers[COND] \div bit) % 2 = 1
        IN  /\ registers'[PC] = IF taken THEN (a + 1 + Offset9(Ins)) % 65536 ELSE a + 1
            /\ \A r \in 0..(GREGISTERS - 1) : registers'[r] = registers[r]
            /\ memory' = memory /\ memsize' = memsize]_vars

\* the cell at index k of the array, as it is before a step and after it
CellAt(k) == IF k \in DOMAIN memory THEN memory[k] ELSE 0
CellAfter(k) == IF k \in DOMAIN memory' THEN memory'[k] ELSE 0

Offset6(ins) == IF ins % 64 >= 32 THEN (ins % 64) - 64 ELSE ins % 64
Offset11(ins) == IF ins % 2048 >= 1024 THEN (ins % 2048) - 2048 ELSE ins % 2048

ImageWord(stream, i) == stream[2 * i + 3] * 256 + stream[2 * i + 4]
ImageLen(stream) == IF Len(stream) < 2 THEN 0 ELSE (Len(stream) - 2) \div 2

\* C12: when the machine is started on an image loaded by fromfile whose
\* header word is A and whose body is one word or more, the first instruction
\* fetched is the one at A, the first word of the image.
C12_StartsAtImageAddress ==
    (/\ call.fn = "fromfile" /\ Len(call.data) >= 4 /\ Len(call.data) % 2 = 0
     /\ steps = 1)
    => /\ last.at = call.start
       /\ last.ins = ImageWord(call.data, 0)

\* C13: loading an image whose header is the big-endian word A and whose body
\* is the n >= 1 big-endian words w0..w(n-1) into a fresh memory leaves the
\* cell A + i equal to w_i for every i below n.
C13_ImageWordsAtStart ==
    [][(/\ status = "setup" /\ memory = <<>> /\ memsize = SIZE
        /\ call'.fn = "fromfile"
        /\ Len(call'.data) >= 4 /\ Len(call'.data) % 2 = 0)
       => /\ exc' = ""
          /\ call'.start = call'.data[1] * 256 + call'.data[2]
          /\ \A i \in 0..(ImageLen(call'.data) - 1) :
                CellAfter(call'.start + i) = ImageWord(call'.data, i)]_vars

\* the image 30 00 16 61 F0 25 loaded into a fresh memory: 0x1661 at 0x3000
\* and 0xF025 at 0x3001, no other cell set
C13_Witness ==
    /\ status = "loaded"
    /\ call = [fn |-> "fromfile", start |-> 12288, data |-> <<48, 0, 22, 97, 240, 37>>]
    /\ DOMAIN memory = {12288, 12289}
    /\ memory[12288] = 5729
    /\ memory[12289] = 61477

\* the number of words a load call hands to fromiter
LoadLen(c) == IF c.fn = "fromiter" THEN Len(c.data) ELSE ImageLen(c.data)

\* C14: after a load (fromiter, frombytes, fromfile) the memory still has
\* exactly 65536 cells, and a load of n words at A leaves every cell outside
\* A..A+n-1 with the value it had before the load.
C14_LoadKeepsSizeAndCells ==
    [][(status = "setup" /\ status' = "loaded")
       => /\ memsize' = SIZE
          /\ \A k \in (DOMAIN memory \cup DOMAIN memory') :
                (k < call'.start \/ k >= call'.start + LoadLen(call'))
                => CellAfter(k) = CellAt(k)]_vars

\* C15: loading an empty stream, a header of fewer than two bytes or a header
\* with no body after it ends in an error raised by the load, and leaves the
\* memory as it was.
C15_MalformedImageRejected ==
    [][(status = "setup" /\ call'.fn = "fromfile" /\ Len(call'.data) <= 2)
       => /\ exc' # ""
          /\ status' = "raised"
          /\ memory' = memory
          /\ memsize' = memsize]_vars

\* C16: a device registered at an address is activated once by every read of
\* that address, before the value is taken, and by no write.  Everything the
\* claim says starts from a registered device, so it is stated on that: the
\* caller's add_device(address, device) returns with the device registered,
\* no exception raised.
C16_DeviceRegistered ==
    call.fn = "add_device" => (exc = "" /\ status # "raised")

\* C17: the program counter stays in 0..65535 by wrapping mod 2^16 and never
\* faults: the fetch at 0xFFFF of an instruction that does not jump leaves
\* pc = 0, and the targets of a taken BR and of JSR are taken mod 2^16.
C17_PcWraps ==
    [][status = "running"
       => /\ exc' # "OverflowError"
          /\ registers'[PC] \in 0..(WORD - 1)
          /\ (/\ steps < MaxSteps /\ registers[PC] = WORD - 1
              /\ MemOk(memsize, registers[PC])
              /\ Shr(Ins, 12) \in {ADD, AND, NOT, LEA} \/ Ins \div 512 = 0)
             => registers'[PC] = 0
          /\ (/\ Fetch(BR)
              /\ \E bit \in {1, 2, 4} :
                    (FieldDR(Ins) \div bit) % 2 = 1 /\ (registers[COND] \div bit) % 2 = 1)
             => registers'[PC] = (registers[PC] + 1 + Offset9(Ins)) % WORD
          /\ (Fetch(JSR) /\ (Ins \div 2048) % 2 = 1)
             => registers'[PC] = (registers[PC] + 1 + Offset11(Ins)) % WORD]_vars

\* the address arithmetic of the loads and stores, taken mod 2^16
WrapPcRelative == (registers[PC] + 1 + Offset9(Ins)) % WORD
WrapBaseRelative == (registers[FieldSR1(Ins)] + Offset6(Ins)) % WORD

\* C18: the effective address of every load and store is base + sign-extended
\* offset mod 2^16 and never a fault: LD, LDI, ST, STI use pc + 1 + offset9,
\* LDR and STR use the base register + offset6, and the cell of that address
\* is the one read or written.
C18_EffectiveAddressWraps ==
    [][/\ (\E op \in {LD, LDI, LDR, ST, STI, STR} : Fetch(op)) => exc' = ""
       /\ Fetch(LD) => registers'[FieldDR(Ins)] = CellAt(WrapPcRelative)
       /\ Fetch(LDI) => registers'[FieldDR(Ins)] = CellAt(CellAt(WrapPcRelative))
       /\ Fetch(LDR) => registers'[FieldDR(Ins)] = CellAt(WrapBaseRelative)
       /\ Fetch(ST) => CellAfter(WrapPcRelative) = registers[FieldDR(Ins)]
       /\ Fetch(STI) => CellAfter(CellAt(WrapPcRelative)) = registers[FieldDR(Ins)]
       /\ Fetch(STR) => CellAfter(WrapBaseRelative) = registers[FieldDR(Ins)]]_vars

\* what an RTI or RES step leaves alone: every register but pc, which has
\* advanced by one, the flags and the memory
UnsupportedFrame ==
    /\ registers' = [registers EXCEPT ![PC] = registers[PC] + 1]
    /\ memory' = memory
    /\ memsize' = memsize

\* C19: executing RTI or RES is a no-op: apart from pc having advanced by one,
\* no register, flag or memory cell changes, and the machine stays running,
\* ready to fetch the next instruction.
C19_RtiResNoOp ==
    [][\A op \in {RTI, RES} :
        Fetch(op) => (UnsupportedFrame /\ status' = "running" /\ exc' = "")]_vars

\* C20: fetching an instruction whose opcode has no case ends the run with an
\* error that carries the opcode; no instruction is executed after it, and
\* the step changes no register or memory cell apart from the advanced pc.
C20_UnsupportedOpcodeFatal ==
    [][/\ \A op \in {RTI, RES} :
            Fetch(op) => /\ exc' = "RuntimeError"
                         /\ excarg' = op
                         /\ status' = "raised"
                         /\ \A r \in 0..COND : registers'[r] = registers[r]
                         /\ memory' = memory
                         /\ memsize' = memsize
       /\ exc = "RuntimeError" => FALSE]_vars

\* RES at 0x3000: the run has ended after one step with RuntimeError carrying
\* 13, the opcode of RES
C20_Witness ==
    /\ last.op = RES /\ steps = 1
    /\ status = "raised" /\ exc = "RuntimeError"
    /\ excarg = RES
    /\ registers[PC] = PROGRAM_START + 1

\* the trap vector of the instruction about to be fetched
Vector == Ins % 256

\* C21: a TRAP whose vector is none of the defined ones ends the run with an
\* error that carries the vector; it is not skipped, and no instruction is
\* executed after it.
C21_UndefinedVectorFatal ==
    [][/\ (Fetch(TRAP) /\ Vector \notin DefinedVectors)
          => /\ exc' = "ValueError"
             /\ excarg' = Vector
             /\ status' = "raised"
       /\ (exc = "ValueError" /\ last.op = TRAP) => FALSE]_vars

\* TRAP xFF at 0x3000: the run has ended after one step with ValueError
\* carrying 255, the HALT behind it not reached
C21_Witness ==
    /\ last.op = TRAP /\ last.ins = TRAPv(255) /\ steps = 1
    /\ status = "raised" /\ exc = "ValueError"
    /\ excarg = 255
    /\ registers[PC] = PROGRAM_START + 1

\* C22: the machine leaves the running state only by TRAP HALT or by the
\* error for an opcode without a case or a vector that is not defined: no
\* other instruction and no other defined vector ends the run.
C22_OnlyHaltOrUnsupportedEnds ==
    [][(status = "running" /\ status' # "running")
       => \/ Fetch(TRAP) /\ Vector = TrapVector_HALT
          \/ Fetch(TRAP) /\ Vector \notin DefinedVectors
          \/ Fetch(RTI)
          \/ Fetch(RES)]_vars

\* the character a step has just read from the input, EOF for none left
FirstRead == stdin'[Len(stdin) + 1]

\* C23: TRAP IN writes the prompt, consumes exactly one character c, echoes
\* that c and stores ord(c) AND 0xFF in R0: the character stored is the one
\* echoed and the input has advanced by one character.
C23_InReadsOneCharacter ==
    [][(Fetch(TRAP) /\ Vector = TrapVector_IN /\ FirstRead # EOF)
       => /\ Len(stdin') = Len(stdin) + 1
          /\ stdout' = stdout \o Prompt \o <<FirstRead>>
          /\ registers'[0] = FirstRead % 256
          /\ exc' = ""]_vars

RECURSIVE PackedString(_, _)
\* the characters of a string packed two to a cell, low byte first, up to the
\* first zero byte; n bounds the cells looked at
PackedString(position, n) ==
    LET c == CellAt(position)
    IN  IF n = 0 \/ c % 256 = 0 THEN <<>>
        ELSE IF c \div 256 = 0 THEN <<c % 256>>
        ELSE <<c % 256, c \div 256>> \o PackedString(position + 1, n - 1)

\* C24: TRAP PUTSP writes, for each cell from the address in R0, the low byte
\* then the high byte, and stops at the first zero byte: after a non-zero low
\* byte with a zero high byte nothing more is written, no NUL and no later
\* cell.
C24_PutspStopsAtZeroByte ==
    [][(Fetch(TRAP) /\ Vector = TrapVector_PUTSP /\ exc' = "")
       => stdout' = stdout \o PackedString(registers[0], MaxString)]_vars

\* C25: TRAP GETC consumes exactly one character c from the input, stores
\* ord(c) AND 0xFF in R0 and writes nothing to the output.
C25_GetcReadsOneCharacter ==
    [][(Fetch(TRAP) /\ Vector = TrapVector_GETC /\ FirstRead # EOF)
       => /\ Len(stdin') = Len(stdin) + 1
          /\ registers'[0] = FirstRead % 256
          /\ stdout' = stdout
          /\ stderr' = stderr
          /\ exc' = ""]_vars

\* GETC at 0x3000 on the input character 321: one read, R0 = 65, no output
C25_Witness ==
    /\ last.op = TRAP /\ last.ins = TRAPv(TrapVector_GETC) /\ steps = 1
    /\ stdin = <<321>>
    /\ registers[0] = 65
    /\ stdout = <<>>
    /\ status = "running"

\* C26: TRAP OUT appends exactly the character chr(R0 AND 0xFF) to the output
\* stream handed to lc3_trap, the one PUTS and IN write to, and changes
\* neither R0 nor the memory.
C26_OutWritesOneCharacter ==
    [][(Fetch(TRAP) /\ Vector = TrapVector_OUT)
       => /\ stdout' = Append(stdout, registers[0] % 256)
          /\ exc' = ""
          /\ registers'[0] = registers[0]
          /\ memory' = memory
          /\ memsize' = memsize]_vars

\* the first index from `position` on whose cell is zero; n bounds the search
RECURSIVE ZeroFrom(_, _)
ZeroFrom(position, n) ==
    IF n = 0 \/ CellAt(position) = 0 THEN position ELSE ZeroFrom(position + 1, n - 1)

C28_EndOfInputFatal ==
    [][/\ (Fetch(TRAP) /\ Vector \in {TrapVector_GETC, TrapVector_IN} /\ FirstRead = EOF)
          => /\ exc' # ""
             /\ status' = "raised"
             /\ registers'[0] = registers[0]
       /\ exc = "TypeError" => FALSE]_vars

\* LEA R0 then GETC with no input left: TypeError, R0 still 0x3002
C28_Witness ==
    /\ last.op = TRAP /\ last.ins = TRAPv(TrapVector_GETC) /\ steps = 2
    /\ stdin = <<EOF>>
    /\ status = "raised" /\ exc = "TypeError"
    /\ registers[0] = PROGRAM_START + 2

\* C29: for every width b in 1..16 and every 16-bit v, sign_extend of the low
\* b bits of v is their two's-complement value: the low b bits themselves
\* when bit b-1 is 0, the low b bits minus 2^b when it is 1.
C29_SignExtendTwosComplement ==
    se.done
    => LET low == se.value % (2 ^ se.bits)
       IN  /\ se.arg = low
           /\ se.result = IF (low \div (2 ^ (se.bits - 1))) % 2 = 0
                          THEN low
                          ELSE low - 2 ^ se.bits

\* the low 5 bits of 0xABF0 are 10000: sign_extend gives -16
C29_Witness ==
    /\ se.done
    /\ se.value = 44016 /\ se.bits = 5
    /\ se.arg = 16
    /\ se.result = -16

RECURSIVE Follow(_, _, _)
\* the state the transitions of d lead to from `state` on the word `inputs`
Follow(d, state, inputs) ==
    IF inputs = <<>> THEN state
    ELSE Follow(d, CHOOSE target \in d.transitions[state][Head(inputs)] : TRUE, Tail(inputs))

\* every state of d has exactly one target for every symbol, itself a state of d
Complete(d, alphabet) ==
    /\ d.start_state \in States(d)
    /\ \A state \in States(d) :
        /\ DOMAIN d.transitions[state] = alphabet
        /\ \A symbol \in alphabet :
            /\ Cardinality(d.transitions[state][symbol]) = 1
            /\ d.transitions[state][symbol] \subseteq States(d)

\* C30: the machine as_dfa returns is complete and deterministic, and for
\* every word over the NFA's alphabet, following its transitions from its
\* start state ends in one of its final states iff the NFA accepts the word.
C30_SubsetConstruction ==
    /\ phase \in {"built", "called"} => Complete(dfa, Inputs(nfa))
    /\ phase = "called"
       => (Follow(dfa, dfa.start_state, input_word) \in dfa.final_states <=> answer.accepted)

\* the NFA of test_ends_with_01 on the word 0 0 1: accepted, and the machine
\* built stands in its final state {A, C}
C30_Witness ==
    /\ phase = "called"
    /\ nfa.final_states = {"C"}
    /\ input_word = <<0, 0, 1>>
    /\ answer = [results |-> {"A", "C", DeadState}, accepted |-> TRUE]
    /\ dfa.final_states = {{"A", "C"}}
    /\ Follow(dfa, dfa.start_state, input_word) = {"A", "C"}

\* whether a BR with mask m is taken under the flags cond
TakenWith(m, cond) ==
    \E bit \in {1, 2, 4} : (m \div bit) % 2 = 1 /\ (cond \div bit) % 2 = 1

\* C33: the flags the caller has put in the condition register before the
\* run are the flags the first instruction sees: a BR as first instruction is
\* taken if its mask meets the preset flags and not taken if it does not.
C33_PresetFlagSeenByFirstBranch ==
    [][(/\ status = "loaded" /\ status' = "running"
        /\ registers[COND] # 0
        /\ MemOk(memsize', registers'[PC])
        /\ MemGet(memory', memsize', registers'[PC]) \div 4096 = BR)
       => LET m == FieldDR(MemGet(memory', memsize', registers'[PC]))
          IN  TakenWith(m, registers'[COND]) <=> TakenWith(m, registers[COND])]_vars

\* C34: a JSR or JSRR at address a whose base register (bits 8..6) is not
\* R7 leaves R7 = a + 1 and pc = a + 1 + sign_extend(offset11, 11) if bit 11
\* is set, else pc = the base register's value before the step, and changes
\* no other general-purpose register and no memory cell.
C34_JsrLinksAndJumps ==
    [][(Fetch(JSR) /\ FieldSR1(Ins) # 7)
       => LET a == registers[PC]
          IN  /\ registers'[7] = a + 1
              /\ registers'[PC] = IF (Ins \div 2048) % 2 = 1
                                  THEN a + 1 + Offset11(Ins)
                                  ELSE registers[FieldSR1(Ins)]
              /\ \A r \in 0..6 : registers'[r] = registers[r]
              /\ memory' = memory /\ memsize' = memsize]_vars

\* C35: after a JSR or JSRR at address a, when the instructions executed
\* since have not written R7, a JMP with base register R7 makes a + 1 the
\* address of the next fetch.
C35_ReturnBehindCall ==
    [][(last.ret # -1 /\ exc = "" /\ Fetch(JMP) /\ FieldSR1(Ins) = 7)
       => /\ registers'[PC] = last.ret
          /\ exc' = ""
          /\ status' = "running"]_vars

\* JSR at 0x3000 to 0x3002, ADD R3,R1,#1 there, JMP R7 at 0x3003: pc is back
\* at 0x3001
C35_Witness ==
    /\ last.op = JMP /\ last.at = PROGRAM_START + 3 /\ steps = 3
    /\ last.ret = PROGRAM_START + 1
    /\ registers[7] = PROGRAM_START + 1
    /\ registers[PC] = PROGRAM_START + 1
    /\ registers[3] = 2
    /\ status = "running"

\* C36: AND stores in DR the 16-bit bitwise AND of SR1 with SR2 (bit 5 = 0)
\* or with the 16-bit sign extension of imm5 (bit 5 = 1), and sets the flag
\* of the result.
C36_AndStoresBitwiseAnd ==
    [][Fetch(AND)
       => LET operand == IF (Ins \div 32) % 2 = 1
                         THEN (Imm5(Ins) + WORD) % WORD
                         ELSE registers[FieldSR2(Ins)]
              result == BitAnd(registers[FieldSR1(Ins)], operand)
          IN  /\ exc' = ""
              /\ registers'[FieldDR(Ins)] = result
              /\ registers'[COND] = FlagFor(result)]_vars

\* AND R3,R1,#-1 with R1 = 0xFFFF: R3 = 0xFFFF and the flag is NEGATIVE
C36_Witness ==
    /\ last.op = AND /\ last.ins = ANDi(3, 1, 31) /\ steps = 1
    /\ registers[1] = 65535
    /\ registers[3] = 65535
    /\ registers[COND] = NEGATIVE

ChangedCells == {k \in DOMAIN memory \cup DOMAIN memory' : CellAfter(k) # CellAt(k)}

\* C38: during a run a memory cell changes only as the target of an executed
\* ST, STI or STR; every other instruction and every trap leaves all cells
\* as they are, and a store changes the one cell it addresses.
C38_OnlyStoresWriteMemory ==
    [][status = "running"
       => /\ memsize' = memsize
          /\ ChangedCells # {}
             => /\ last'.op \in {ST, STI, STR}
                /\ exc' = ""
                /\ ChangedCells = {last'.cell}
                /\ CellAfter(last'.cell) = registers[FieldDR(last'.ins)]]_vars

\* ST R1 with R1 = 0xFFF0 to the cell 0x3002, which held 0: that cell alone
\* has changed
C38_Witness ==
    /\ last.op = ST /\ last.ins = STo(1, 1) /\ steps = 1
    /\ last.cell = PROGRAM_START + 2
    /\ registers[1] = 65520
    /\ CellAt(PROGRAM_START + 2) = 65520
    /\ DOMAIN memory = {PROGRAM_START, PROGRAM_START + 1, PROGRAM_START + 2}

\* C39: a JSRR with base register R7 at address a leaves both R7 and pc at
\* a + 1, whatever R7 held before: the link is written before the base
\* register is read.
C39_JsrrR7FallsThrough ==
    [][(Fetch(JSR) /\ (Ins \div 2048) % 2 = 0 /\ FieldSR1(Ins) = 7)
       => /\ registers'[7] = registers[PC] + 1
          /\ registers'[PC] = registers[PC] + 1
          /\ exc' = ""]_vars

\* LEA R7 to 0x3006, then JSRR R7 at 0x3001: R7 and pc are both 0x3002
C39_Witness ==
    /\ last.op = JSR /\ last.ins = JSRRr(7) /\ last.at = PROGRAM_START + 1
    /\ steps = 2
    /\ registers[7] = PROGRAM_START + 2
    /\ registers[PC] = PROGRAM_START + 2

\* whether the word leads from `state` of d into a final state of d
AcceptsFrom(d, state, inputs) == Follow(d, state, inputs) \in d.final_states

\* minimize has returned
Minimized == phase = "minimized" \/ (phase = "called" /\ answer.of = "minimized")

\* C31: for every complete DFA minimize terminates, and the DFA it returns
\* has as states blocks that partition the original states, none mixing
\* final and non-final states, accepts the same non-empty words as the
\* original, and has no two distinct blocks that accept the same words (the
\* empty word, which tells a final block from a non-final one, among them).
C31_MinimizeIsMinimal ==
    /\ [](Minimized
          => /\ Complete(dfa, Symbols)
             /\ UNION States(dfa) = States(machine)
             /\ \A b1 \in States(dfa) :
                    /\ b1 # {}
                    /\ b1 \subseteq machine.final_states \/ b1 \cap machine.final_states = {}
                    /\ \A b2 \in States(dfa) \ {b1} :
                        /\ b1 \cap b2 = {}
                        /\ \E inputs \in Words(Symbols) :
                            AcceptsFrom(dfa, b1, inputs) # AcceptsFrom(dfa, b2, inputs))
    /\ []((phase = "called" /\ answer.of = "minimized" /\ input_word # <<>>)
          => (answer.accepted <=> AcceptsFrom(machine, machine.start_state, input_word)))
    /\ (phase = "minimize" ~> phase = "minimized")

\* the DFA of test_minimize_1: A and C fall into one block, {E} is final, and
\* the word 0 1 1 is accepted as before
C31_Witness ==
    /\ phase = "called" /\ answer.of = "minimized"
    /\ States(machine) = {"A", "B", "C", "D", "E"}
    /\ machine.final_states = {"E"}
    /\ dfa.start_state = {"A", "C"}
    /\ States(dfa) = {{"A", "C"}, {"B"}, {"D"}, {"E"}}
    /\ dfa.final_states = {{"E"}}
    /\ input_word = <<0, 1, 1>>
    /\ answer.accepted
    /\ answer.state = {"E"}

\* C32: for every complete DFA d and every word, the empty one included,
\* d.negate() accepts the word iff d does not; and negating twice gives back
\* the original final states.
C32_NegateComplements ==
    /\ (phase = "called" /\ answer.of = "negated")
       => (answer.accepted
           <=> ~(\E result \in DfaResults(machine, input_word) : IsFinal(machine, result)))
    /\ phase = "negated twice" => dfa.final_states = machine.final_states

RECURSIVE HitsMissing(_, _, _)
\* the word, followed from `state`, comes to a state or a symbol that has no
\* entry in the transitions of d
HitsMissing(d, state, inputs) ==
    IF inputs = <<>> THEN FALSE
    ELSE IF state \notin DOMAIN d.transitions THEN TRUE
    ELSE IF Head(inputs) \notin DOMAIN d.transitions[state] THEN TRUE
    ELSE \E target \in d.transitions[state][Head(inputs)] :
            HitsMissing(d, target, Tail(inputs))

=============================================================================
